---- MODULE Spec2Model ----
(***************************************************************************)
(* next-fast: src/src/main.rs.  One run of the scaffolding pipeline:       *)
(* main() calls check_bun_installed, create_nextjs_with_bun,               *)
(* initialize_prisma, initialize_shadcn and show_completion_message.       *)
(* Every external process is opaque: whether it can be launched and the    *)
(* status it exits with are chosen by the environment.  A blocking         *)
(* Command::status()/output() call is split in two steps, the launch and   *)
(* the return of the exit status, so that "the child eventually exits" is  *)
(* a fairness condition and not built into the model.                      *)
(***************************************************************************)
EXTENDS Integers, Sequences, FiniteSets, TLC

\* exit statuses a child process may return: 0 .. MaxStatus
MaxStatus == 2
\* number of distinct project names tried
NumProjectNames == 2

Statuses == 0 .. MaxStatus

ProjectNames == { "app" \o ToString(i) : i \in 1 .. NumProjectNames }

\* struct Cli, as a value; Cli::parse() is the clap library's work
CliValues ==
  [ project_name : ProjectNames,
    typescript : BOOLEAN,
    tailwind : BOOLEAN,
    eslint : BOOLEAN,
    app : BOOLEAN,
    skip_install : BOOLEAN ]

NotExited == -1

VARIABLES
  cli,        \* the parsed configuration, never mutated
  pc,         \* position of main's single thread of control
  cwd,        \* the process's working directory, relative to the start
  files,      \* path -> content, for the files the run touches
  trace,      \* the pipeline steps started so far, in order
  banner,     \* TRUE once show_completion_message has printed
  exit_code   \* the process's exit code, NotExited while it runs

vars == << cli, pc, cwd, files, trace, banner, exit_code >>

\* the literal of create_basic_schema, one element per line
schema_content ==
  << "// This is your Prisma schema file,",
     "// learn more about it in the docs: https://pris.ly/d/prisma-schema",
     "",
     "generator client {",
     "  provider = \"prisma-client-js\"",
     "}",
     "",
     "datasource db {",
     "  provider = \"sqlite\"",
     "  url      = env(\"DATABASE_URL\")",
     "}",
     "",
     "model User {",
     "  id        Int      @id @default(autoincrement())",
     "  email     String   @unique",
     "  name      String?",
     "  createdAt DateTime @default(now())",
     "  updatedAt DateTime @updatedAt",
     "  posts     Post[]",
     "}",
     "",
     "model Post {",
     "  id        Int      @id @default(autoincrement())",
     "  title     String",
     "  content   String?",
     "  published Boolean  @default(false)",
     "  createdAt DateTime @default(now())",
     "  updatedAt DateTime @updatedAt",
     "  author    User     @relation(fields: [authorId], references: [id])",
     "  authorId  Int",
     "}" >>

\* "prisma/schema.prisma", as path components
schema_path == << "prisma", "schema.prisma" >>

\* a relative path is resolved against the working directory
resolve(dir, rel) == dir \o rel

fs_write_append(f, p, c) ==
  [ q \in DOMAIN f \cup {p} |->
      IF q = p THEN (IF p \in DOMAIN f THEN f[p] \o c ELSE c) ELSE f[q] ]

\* tokio::fs::write: create the file or replace its whole content
fs_write(f, p, c) ==
  [ q \in DOMAIN f \cup {p} |-> IF q = p THEN c ELSE f[q] ]

create_nextjs_args_ts_only(c) ==
  << "create", "next-app", c.project_name >>
  \o << "--typescript" >>
  \o (IF c.tailwind THEN << "--tailwind" >> ELSE << "--no-tailwind" >>)
  \o (IF c.eslint THEN << "--eslint" >> ELSE << "--no-eslint" >>)
  \o (IF c.app THEN << "--app" >> ELSE << "--no-app" >>)
  \o (IF c.skip_install THEN << "--skip-install" >> ELSE << >>)

\* the argument list create_nextjs_with_bun builds for `bun`
create_nextjs_args(c) ==
  << "create", "next-app", c.project_name >>
  \o (IF c.typescript THEN << "--typescript" >> ELSE << "--javascript" >>)
  \o (IF c.tailwind THEN << "--tailwind" >> ELSE << "--no-tailwind" >>)
  \o (IF c.eslint THEN << "--eslint" >> ELSE << "--no-eslint" >>)
  \o (IF c.app THEN << "--app" >> ELSE << "--no-app" >>)
  \o (IF c.skip_install THEN << "--skip-install" >> ELSE << >>)

\* one entry of the trace
Step(name, prog, argv, outcome, status) ==
  [ step |-> name, prog |-> prog, argv |-> argv, cwd |-> cwd,
    outcome |-> outcome, status |-> status ]

\* the process ends: std::process::exit(code), or main returns
Exit(code) ==
  /\ pc' = "exited"
  /\ exit_code' = code

\* Command::status()/output(): the attempt to launch the child.  A launch
\* error is Err(_): `?` returns it from main, which exits with code 1.
Launch(at, name, prog, argv, waiting) ==
  /\ pc = at
  /\ \E launched \in BOOLEAN :
       IF launched
       THEN /\ trace' = Append(trace, Step(name, prog, argv, "running", -1))
            /\ pc' = waiting
            /\ exit_code' = exit_code
       ELSE /\ trace' = Append(trace, Step(name, prog, argv, "launch_err", -1))
            /\ Exit(1)
  /\ UNCHANGED << cli, cwd, files, banner >>

\* the last step of the trace has exited with status st
Exited(st) ==
  [ trace EXCEPT ![Len(trace)] =
      [ @ EXCEPT !.outcome = "exited", !.status = st ] ]

\* Command::status() returns; `if !status.success() { exit(1) }`
Await(at, next) ==
  /\ pc = at
  /\ \E st \in Statuses :
       /\ trace' = Exited(st)
       /\ IF st = 0
          THEN pc' = next /\ exit_code' = exit_code
          ELSE Exit(1)
  /\ UNCHANGED << cli, cwd, files, banner >>

Init ==
  /\ cli \in CliValues
  /\ pc = "check_bun"
  /\ cwd = << >>
  /\ files = << >>
  /\ trace = << >>
  /\ banner = FALSE
  /\ exit_code = NotExited

check_bun_installed_spawn_ignore_err ==
  /\ pc = "check_bun"
  /\ \E launched \in BOOLEAN :
       IF launched
       THEN /\ trace' = Append(trace,
                 Step("bun_version", "bun", << "--version" >>, "running", -1))
            /\ pc' = "check_bun_wait"
       ELSE /\ trace' = Append(trace,
                 Step("bun_version", "bun", << "--version" >>, "launch_err", -1))
            /\ pc' = "create_nextjs"
  /\ UNCHANGED << cli, cwd, files, banner, exit_code >>

\* check_bun_installed: Command::new("bun").arg("--version").output();
\* Err(_) => exit(1)
check_bun_installed_spawn ==
  /\ pc = "check_bun"
  /\ \E launched \in BOOLEAN :
       IF launched
       THEN /\ trace' = Append(trace,
                 Step("bun_version", "bun", << "--version" >>, "running", -1))
            /\ pc' = "check_bun_wait"
            /\ exit_code' = exit_code
       ELSE /\ trace' = Append(trace,
                 Step("bun_version", "bun", << "--version" >>, "launch_err", -1))
            /\ Exit(1)
  /\ UNCHANGED << cli, cwd, files, banner >>

\* check_bun_installed: output() returned Ok(_); the arm does not look at
\* the exit status and returns Ok(()) to main
check_bun_installed_output ==
  /\ pc = "check_bun_wait"
  /\ \E st \in Statuses : trace' = Exited(st)
  /\ pc' = "create_nextjs"
  /\ UNCHANGED << cli, cwd, files, banner, exit_code >>

\* create_nextjs_with_bun: build the arguments and launch `bun create`
create_nextjs_with_bun_spawn ==
  Launch("create_nextjs", "bun_create", "bun", create_nextjs_args(cli),
         "create_nextjs_wait")

\* create_nextjs_with_bun: the status check
create_nextjs_with_bun_status ==
  Await("create_nextjs_wait", "chdir")

set_current_dir_noop ==
  /\ pc = "chdir"
  /\ \E ok \in BOOLEAN :
       IF ok
       THEN /\ trace' = Append(trace, Step("chdir", "", << >>, "ok", -1))
            /\ cwd' = cwd
            /\ pc' = "bun_add"
            /\ exit_code' = exit_code
       ELSE /\ trace' = Append(trace, Step("chdir", "", << >>, "io_err", -1))
            /\ cwd' = cwd
            /\ Exit(1)
  /\ UNCHANGED << cli, files, banner >>

\* initialize_prisma: env::set_current_dir(project_path)?
set_current_dir ==
  /\ pc = "chdir"
  /\ \E ok \in BOOLEAN :
       IF ok
       THEN /\ trace' = Append(trace, Step("chdir", "", << >>, "ok", -1))
            /\ cwd' = resolve(cwd, << cli.project_name >>)
            /\ pc' = "bun_add"
            /\ exit_code' = exit_code
       ELSE /\ trace' = Append(trace, Step("chdir", "", << >>, "io_err", -1))
            /\ cwd' = cwd
            /\ Exit(1)
  /\ UNCHANGED << cli, files, banner >>

\* initialize_prisma: bun add prisma @prisma/client
bun_add_spawn ==
  Launch("bun_add", "bun_add", "bun", << "add", "prisma", "@prisma/client" >>,
         "bun_add_wait")

bun_add_status ==
  Await("bun_add_wait", "prisma_init")

\* initialize_prisma: bunx prisma init --datasource-provider sqlite
prisma_init_spawn ==
  Launch("prisma_init", "prisma_init", "bunx",
         << "prisma", "init", "--datasource-provider", "sqlite" >>,
         "prisma_init_wait")

\* the status check of prisma init; a run of the tool that succeeds may
\* have left its own schema file in the working directory
prisma_init_status ==
  /\ pc = "prisma_init_wait"
  /\ \E st \in Statuses :
       /\ trace' = Exited(st)
       /\ IF st = 0
          THEN /\ pc' = "write_schema"
               /\ exit_code' = exit_code
               /\ \E scaffolded \in BOOLEAN :
                    files' = IF scaffolded
                             THEN fs_write(files, resolve(cwd, schema_path),
                                           << "// generated by prisma init" >>)
                             ELSE files
          ELSE /\ Exit(1)
               /\ files' = files
  /\ UNCHANGED << cli, cwd, banner >>

create_basic_schema_swallow ==
  /\ pc = "write_schema"
  /\ \E ok \in BOOLEAN :
       IF ok
       THEN /\ trace' = Append(trace, Step("write_schema", "", << >>, "ok", -1))
            /\ files' = fs_write(files, resolve(cwd, schema_path), schema_content)
       ELSE /\ trace' = Append(trace, Step("write_schema", "", << >>, "io_err", -1))
            /\ files' = files
  /\ pc' = "prisma_generate"
  /\ UNCHANGED << cli, cwd, banner, exit_code >>

\* create_basic_schema: tokio::fs::write("prisma/schema.prisma", ...)?
create_basic_schema ==
  /\ pc = "write_schema"
  /\ \E ok \in BOOLEAN :
       IF ok
       THEN /\ trace' = Append(trace, Step("write_schema", "", << >>, "ok", -1))
            /\ files' = fs_write(files, resolve(cwd, schema_path), schema_content)
            /\ pc' = "prisma_generate"
            /\ exit_code' = exit_code
       ELSE /\ trace' = Append(trace, Step("write_schema", "", << >>, "io_err", -1))
            /\ files' = files
            /\ Exit(1)
  /\ UNCHANGED << cli, cwd, banner >>

\* initialize_prisma: bunx prisma generate
prisma_generate_spawn ==
  Launch("prisma_generate", "prisma_generate", "bunx",
         << "prisma", "generate" >>, "prisma_generate_wait")

prisma_generate_status ==
  Await("prisma_generate_wait", "shadcn")

\* initialize_shadcn: bunx shadcn@latest init
initialize_shadcn_spawn ==
  Launch("shadcn", "shadcn_init", "bunx", << "shadcn@latest", "init" >>,
         "shadcn_wait")

initialize_shadcn_status ==
  Await("shadcn_wait", "banner")

show_completion_message_restart ==
  /\ pc = "banner"
  /\ trace' = << >>
  /\ pc' = "check_bun"
  /\ cwd' = << >>
  /\ UNCHANGED << cli, files, banner, exit_code >>

\* main: show_completion_message(..); Ok(()) -- exit code 0
show_completion_message ==
  /\ pc = "banner"
  /\ trace' = Append(trace, Step("banner", "", << >>, "ok", -1))
  /\ banner' = TRUE
  /\ Exit(0)
  /\ UNCHANGED << cli, cwd, files >>

Next ==
  \/ check_bun_installed_spawn
  \/ check_bun_installed_output
  \/ create_nextjs_with_bun_spawn
  \/ create_nextjs_with_bun_status
  \/ set_current_dir
  \/ bun_add_spawn
  \/ bun_add_status
  \/ prisma_init_spawn
  \/ prisma_init_status
  \/ create_basic_schema
  \/ prisma_generate_spawn
  \/ prisma_generate_status
  \/ initialize_shadcn_spawn
  \/ initialize_shadcn_status
  \/ show_completion_message

Spec == Init /\ [][Next]_vars

\* every call of main is awaited to completion and every launched child
\* eventually exits: no enabled step is postponed forever
FairSpec == Spec /\ WF_vars(Next)

\* ---------------------------------------------------------------------
\* vocabulary of the properties

PipelineOrder ==
  << "bun_version", "bun_create", "chdir", "bun_add", "prisma_init",
     "write_schema", "prisma_generate", "shadcn_init", "banner" >>

Invocations ==
  { "bun_version", "bun_create", "bun_add", "prisma_init",
    "prisma_generate", "shadcn_init" }

IsInvocation(e) == e.step \in Invocations

NonZero(e) == e.outcome = "exited" /\ e.status # 0

LaunchFailed(e) == e.outcome = "launch_err"

Succeeded(e) ==
  IF IsInvocation(e) THEN e.outcome = "exited" /\ e.status = 0
  ELSE e.outcome = "ok"

Has(name) == \E i \in DOMAIN trace : trace[i].step = name

Entry(name) == trace[CHOOSE i \in DOMAIN trace : trace[i].step = name]

Aborted == pc = "exited" /\ exit_code = 1 /\ ~banner

TypeOK ==
  /\ cli \in CliValues
  /\ pc \in { "check_bun", "check_bun_wait", "create_nextjs",
              "create_nextjs_wait", "chdir", "bun_add", "bun_add_wait",
              "prisma_init", "prisma_init_wait", "write_schema",
              "prisma_generate", "prisma_generate_wait", "shadcn",
              "shadcn_wait", "banner", "exited" }
  /\ banner \in BOOLEAN
  /\ exit_code \in { NotExited, 0, 1 }
  /\ Len(trace) <= Len(PipelineOrder)

\* number of times the switch s occurs in the argument list a
Occ(a, s) == Cardinality({ i \in DOMAIN a : a[i] = s })

\* exactly one switch of the pair, chosen by the flag
OneOfPair(a, flag, on, off) ==
  /\ Occ(a, on) = (IF flag THEN 1 ELSE 0)
  /\ Occ(a, off) = (IF flag THEN 0 ELSE 1)

\* the first eight steps have all run and succeeded
AllSucceeded ==
  /\ Len(trace) >= 8
  /\ \A k \in 1 .. 8 :
       trace[k].step = PipelineOrder[k] /\ Succeeded(trace[k])

\* the steps started so far are a prefix of the fixed order
StepsInOrder ==
  /\ Len(trace) <= Len(PipelineOrder)
  /\ \A i \in DOMAIN trace : trace[i].step = PipelineOrder[i]

\* ---------------------------------------------------------------------
\* C1: an external invocation that returns a non-zero status is the last
\* step of the run: nothing is started after it, the banner is not printed
\* and the process has exited with code 1.
NonZeroStatusAborts ==
  \A i \in DOMAIN trace :
    (IsInvocation(trace[i]) /\ NonZero(trace[i]))
      => (i = Len(trace) /\ Aborted)

\* C2: when `bun --version` cannot be launched the process has exited with
\* code 1 and that attempt is the only external invocation of the run.
BunUnreachableExits ==
  (Len(trace) >= 1 /\ trace[1].step = "bun_version" /\ LaunchFailed(trace[1]))
    => (Aborted /\ Len(trace) = 1)

BunUnreachableSeen ==
  /\ Len(trace) = 1
  /\ trace[1].step = "bun_version"
  /\ LaunchFailed(trace[1])
  /\ pc = "exited"

\* C3: the arguments passed to `bun create` hold exactly one switch of each
\* pair, the first when the flag is true and the second when it is false.
CreateArgsMatchFlags ==
  Has("bun_create") =>
    LET a == Entry("bun_create").argv IN
      /\ OneOfPair(a, cli.typescript, "--typescript", "--javascript")
      /\ OneOfPair(a, cli.tailwind, "--tailwind", "--no-tailwind")
      /\ OneOfPair(a, cli.eslint, "--eslint", "--no-eslint")
      /\ OneOfPair(a, cli.app, "--app", "--no-app")

JavascriptSwitchSeen ==
  /\ Has("bun_create")
  /\ ~cli.typescript
  /\ Occ(Entry("bun_create").argv, "--javascript") = 1
  /\ Occ(Entry("bun_create").argv, "--typescript") = 0

\* C4: once the schema write has succeeded, prisma/schema.prisma under the
\* working directory holds the fixed text whatever the configuration is,
\* it is the only file the run wrote, and writing the text again changes
\* nothing.
SchemaWriteFixed ==
  (Has("write_schema") /\ Entry("write_schema").outcome = "ok") =>
    LET p == resolve(cwd, schema_path) IN
      /\ DOMAIN files = { p }
      /\ files[p] = schema_content
      /\ fs_write(files, p, schema_content) = files

SchemaOverwritten ==
  /\ Has("write_schema")
  /\ Entry("write_schema").outcome = "ok"
  /\ Entry("prisma_init").outcome = "exited"
  /\ resolve(cwd, schema_path) \in DOMAIN files
  /\ ~cli.typescript
  /\ cli.skip_install

\* C5: the process exits with code 0 and prints the banner exactly when
\* every step succeeded; otherwise it exits with code 1 without the banner.
ExitZeroIffAllSucceeded ==
  pc = "exited" =>
    /\ (exit_code = 0 /\ banner) <=> AllSucceeded
    /\ ~AllSucceeded => (exit_code = 1 /\ ~banner)

\* C6: for each external invocation a launch failure and a non-zero exit
\* status have the same consequence: the process has exited with code 1
\* and the invocation is the last step of the run.
LaunchFailureSameAsNonZero ==
  \A i \in DOMAIN trace :
    IsInvocation(trace[i]) =>
      /\ LaunchFailed(trace[i])
           => (pc = "exited" /\ exit_code = 1 /\ Len(trace) = i)
      /\ NonZero(trace[i])
           => (pc = "exited" /\ exit_code = 1 /\ Len(trace) = i)

\* C7: the steps run are a prefix of the fixed order, each at most once,
\* and a step is started only after every earlier step has succeeded.
FixedOrderAfterSuccess ==
  /\ StepsInOrder
  /\ \A i \in DOMAIN trace : i < Len(trace) => Succeeded(trace[i])

\* C8: the working directory changes at most once, from the original
\* directory to the project directory, after `bun create` returned zero
\* and before `bun add` is started; `bun --version` and `bun create` run in
\* the original directory and every later step in the project directory.
CwdInv ==
  /\ cwd \in { << >>, << cli.project_name >> }
  /\ Cardinality({ i \in DOMAIN trace : trace[i].step = "chdir" }) <= 1
  /\ \A i \in DOMAIN trace :
       IF trace[i].step \in { "bun_version", "bun_create", "chdir" }
       THEN trace[i].cwd = << >>
       ELSE trace[i].step = "banner" \/ trace[i].cwd = << cli.project_name >>

CwdStep ==
  cwd' # cwd =>
    /\ cwd = << >>
    /\ cwd' = << cli.project_name >>
    /\ Has("bun_create")
    /\ Succeeded(Entry("bun_create"))
    /\ \A i \in DOMAIN trace' : trace'[i].step # "bun_add"

CwdChangedOnce == []CwdInv /\ [][CwdStep]_vars

ShadcnInProjectDir ==
  /\ Has("shadcn_init")
  /\ Entry("shadcn_init").cwd = << cli.project_name >>
  /\ Entry("bun_create").cwd = << >>
  /\ cwd = << cli.project_name >>

\* C9: a filesystem error of the schema write or of the change of
\* directory ends the run with exit code 1: it is the last step, so no
\* `bun add` follows a failed change of directory and no prisma generate
\* or shadcn init follows a failed write, and the banner is not printed.
FsErrorAborts ==
  \A i \in DOMAIN trace :
    trace[i].outcome = "io_err" =>
      /\ trace[i].step \in { "chdir", "write_schema" }
      /\ i = Len(trace)
      /\ Aborted
      /\ ~Has("prisma_generate")
      /\ ~Has("shadcn_init")
      /\ trace[i].step = "chdir" => ~Has("bun_add")

SchemaWriteFailed ==
  /\ Has("write_schema")
  /\ Entry("write_schema").outcome = "io_err"
  /\ pc = "exited"

\* C10: every run ends, with exit code 1 and no banner or with exit code 0
\* and the banner, and after the end nothing more happens.
Terminal ==
  \/ exit_code = 1 /\ ~banner
  \/ exit_code = 0 /\ banner

EveryRunEnds ==
  /\ <>(pc = "exited")
  /\ [](IF pc = "exited" THEN Terminal ELSE exit_code = NotExited)
  /\ [][pc = "exited" =>
          (pc' = pc /\ trace' = trace /\ files' = files /\ cwd' = cwd)]_vars

SuccessTerminal ==
  /\ pc = "exited"
  /\ exit_code = 0
  /\ banner
  /\ AllSucceeded

====
